---- MODULE Spec2Model ----
(***************************************************************************)
(* Real-time messaging core of the localghost backend:                     *)
(*   backend/app/api/v1/endpoints/chat_websocket.py  (ConnectionManager,   *)
(*       websocket_chat_endpoint and its event handlers)                   *)
(*   backend/app/api/v1/endpoints/chats.py           (REST chat endpoints) *)
(*   backend/app/models/message.py, conversation.py  (persisted entities)  *)
(*                                                                         *)
(* One coroutine per WebSocket; between two awaits a coroutine runs        *)
(* atomically (asyncio), so every action below is the code from one        *)
(* suspension point to the next.                                           *)
(***************************************************************************)
EXTENDS Integers, Sequences, FiniteSets, TLC

VARIABLES
    active_connections,         \* user_id -> set of websockets          (dict)
    conversation_participants,  \* conversation key -> set of user_ids   (dict)
    typing_status,              \* user_id -> (conversation key -> bool) (dict of dicts)
    pc,                         \* per websocket task: position in websocket_chat_endpoint
    ses,                        \* per websocket task: user, path conversation_id, conversation
    open,                       \* per websocket: the transport is open
    client_state,               \* per websocket: WebSocket.client_state
    bc,                         \* per websocket task: the broadcast it is suspended in
    cache,                      \* per websocket task: its ORM Conversation object
                                \*   (attribute values, and whether they are expired)
    frame,                      \* per websocket task: the inbound event being handled
    inbox,                      \* per websocket: the events the client has received
    conversations,              \* table conversations
    messages,                   \* table messages
    clock,                      \* logical now()
    calls                       \* per websocket: how often connect / disconnect were called

vars == <<active_connections, conversation_participants, typing_status, pc, ses, open,
          client_state, bc, cache, frame, inbox, conversations, messages, clock, calls>>

regVars == <<active_connections, conversation_participants, typing_status>>
dbVars  == <<conversations, messages>>

(***************************************************************************)
(* Bounds of the model.                                                    *)
(***************************************************************************)
MaxSessions == 3      \* websockets ever opened
MaxWork     == 4      \* client requests in total: connections, frames, REST requests
MaxConvs    == 2      \* rows of table conversations

Users    == {"A", "B"}
Sessions == 1 .. MaxSessions
NoUser   == "none"

\* profiles.role of each user; create_conversation asks for role = 'local'.
Role == [u \in Users |-> "local"]

(***************************************************************************)
(* Text.  A string is a sequence of runs [ch, n]: n copies of character ch.*)
(***************************************************************************)
TruncLen == 100

Hello == << [ch |-> "h", n |-> 5] >>
Long  == << [ch |-> " ", n |-> 1], [ch |-> "x", n |-> 101] >>
Blank == << [ch |-> " ", n |-> 3] >>
Empty == << >>

RECURSIVE TextLen(_)
TextLen(txt) == IF txt = << >> THEN 0 ELSE Head(txt).n + TextLen(Tail(txt))

RECURSIVE LStrip(_)
LStrip(txt) ==
    IF txt = << >> THEN << >>
    ELSE IF Head(txt).ch = " " THEN LStrip(Tail(txt)) ELSE txt

RECURSIVE RStrip(_)
RStrip(txt) ==
    IF txt = << >> THEN << >>
    ELSE IF txt[Len(txt)].ch = " " THEN RStrip(SubSeq(txt, 1, Len(txt) - 1)) ELSE txt

\* str.strip()
Strip(txt) == RStrip(LStrip(txt))

\* txt[:k]
RECURSIVE Slice(_, _)
Slice(txt, k) ==
    IF txt = << >> \/ k <= 0 THEN << >>
    ELSE IF Head(txt).n <= k
         THEN << Head(txt) >> \o Slice(Tail(txt), k - Head(txt).n)
         ELSE << [ch |-> Head(txt).ch, n |-> k] >>

\* content[:100]
Summary(txt) == Slice(txt, TruncLen)

(***************************************************************************)
(* Dictionaries.                                                           *)
(***************************************************************************)
EmptyDict == [x \in {} |-> {}]
DictSet(d, k, v) == [x \in DOMAIN d \cup {k} |-> IF x = k THEN v ELSE d[x]]
DictDel(d, k) == [x \in DOMAIN d \ {k} |-> d[x]]

\* str(conversation.id): the canonical text of a conversation id
StrId(c) == << c, "canon" >>
PathForms == {"canon"}

(***************************************************************************)
(* ConnectionManager.connect, after `await websocket.accept()`.            *)
(***************************************************************************)
ConnectAC(ac, ws, u) ==
    IF u \in DOMAIN ac THEN DictSet(ac, u, ac[u] \cup {ws}) ELSE DictSet(ac, u, {ws})
ConnectCP(cp, u, k) ==
    IF k \in DOMAIN cp THEN DictSet(cp, k, cp[k] \cup {u}) ELSE DictSet(cp, k, {u})
ConnectTS(ts, u) ==
    IF u \in DOMAIN ts THEN ts ELSE DictSet(ts, u, EmptyDict)

(***************************************************************************)
(* ConnectionManager.disconnect up to its first await.                     *)
(***************************************************************************)
DisconnectAC(ac, ws, u) ==
    IF u \in DOMAIN ac
    THEN IF ac[u] \ {ws} = {} THEN DictDel(ac, u) ELSE DictSet(ac, u, ac[u] \ {ws})
    ELSE ac

\* "Remove user from conversation if no more connections": ac1 is the
\* mapping after DisconnectAC.
DisconnectCP(cp, ac1, u, k) ==
    IF u \notin DOMAIN ac1 /\ k \in DOMAIN cp
    THEN IF cp[k] \ {u} = {} THEN DictDel(cp, k) ELSE DictSet(cp, k, cp[k] \ {u})
    ELSE cp

\* whether disconnect reaches `del typing_status[user][conv]` and the notify
DisconnectNotifies(ts, ac1, u, k) ==
    u \notin DOMAIN ac1 /\ u \in DOMAIN ts /\ k \in DOMAIN ts[u]

\* broadcast_typing_status: "if user_id in typing_status: ...[conv] = is_typing"
SetTyping(ts, u, k, flag) ==
    IF u \in DOMAIN ts THEN DictSet(ts, u, DictSet(ts[u], k, flag)) ELSE ts

\* del typing_status[u][k] followed by broadcast_typing_status(k, u, False)
DisconnectTS(ts, ac1, u, k) ==
    IF DisconnectNotifies(ts, ac1, u, k)
    THEN SetTyping(DictSet(ts, u, DictDel(ts[u], k)), u, k, FALSE)
    ELSE ts

(***************************************************************************)
(* Events sent to clients (json.dumps(...) payloads).  via tells what made *)
(* the server emit the event: 0 for an inbound frame, or the websocket     *)
(* whose disconnect emitted it; cleared is the typing flag that disconnect  *)
(* deleted.                                                                *)
(***************************************************************************)
NoKey == << 0, "none" >>
NoEvent == [type |-> "none", key |-> NoKey, user |-> NoUser, msg |-> 0,
            content |-> Empty, ids |-> {}, flag |-> FALSE, ts |-> 0, via |-> 0,
            cleared |-> FALSE]

Event(type, key, user, ts) == [NoEvent EXCEPT !.type = type, !.key = key, !.user = user, !.ts = ts]

TypingEvent(key, u, flag, ts) == [Event("typing_status", key, u, ts) EXCEPT !.flag = flag]
NewMessageEvent(key, u, m, content, ts) ==
    [Event("new_message", key, u, ts) EXCEPT !.msg = m, !.content = content]
MessagesReadEvent(key, u, ids, ts) == [Event("messages_read", key, u, ts) EXCEPT !.ids = ids]

(***************************************************************************)
(* A broadcast suspended in `await websocket.send_text(...)` (line 80).    *)
(* Both loops iterate a live set object; a set iterator raises             *)
(* RuntimeError when the size of its set differs from the size at its      *)
(* creation (oused, iused).  odet / idet: the dictionary entry that held   *)
(* the iterated set was deleted, so the iterated object is an emptied set  *)
(* that the registry no longer holds.  osnap / isnap are the members at    *)
(* creation: a member added later may lie before or after the iterator's   *)
(* position, so it may or may not be visited.  aud records the websockets  *)
(* registered for the users the broadcast addresses when it starts.        *)
(***************************************************************************)
IdleBc == [on |-> FALSE, ctx |-> "none", ev |-> NoEvent, key |-> NoKey, excl |-> NoUser,
           osnap |-> {}, ovis |-> {}, oused |-> 0, odet |-> FALSE,
           cur |-> NoUser, isnap |-> {}, ivis |-> {}, iused |-> 0, idet |-> FALSE,
           dead |-> {}, target |-> 0, aud |-> {}]

Outcome(kind, b, ac) == [kind |-> kind, b |-> b, ac |-> ac]

\* "Clean up dead connections" (lines 88-89)
CleanUp(b, ac) ==
    IF b.dead = {} THEN ac ELSE DictSet(ac, b.cur, ac[b.cur] \ b.dead)

RECURSIVE InnerRun(_, _, _)
RECURSIVE OuterRun(_, _, _)

\* send_personal_message from the next step of its for loop (line 77) to the
\* next await; the result is the set of possible outcomes.
InnerRun(b, ac, cp) ==
    IF b.idet \/ Cardinality(ac[b.cur]) # b.iused
    THEN { Outcome("raise", b, ac) }
    ELSE LET must == (b.isnap \cap ac[b.cur]) \ b.ivis
             may  == (ac[b.cur] \ b.isnap) \ b.ivis
             Visit(ws) ==
                 LET b1 == [b EXCEPT !.ivis = @ \cup {ws}] IN
                 IF client_state[ws] = "CONNECTED"
                 THEN { Outcome("send", [b1 EXCEPT !.target = ws], ac) }
                 ELSE InnerRun([b1 EXCEPT !.dead = @ \cup {ws}], ac, cp)
             End ==
                 IF b.dead # {} /\ b.cur \notin DOMAIN ac
                 THEN { Outcome("raise", b, ac) }
                 ELSE OuterRun(b, CleanUp(b, ac), cp)
         IN  UNION { Visit(ws) : ws \in must \cup may }
             \cup (IF must = {} THEN End ELSE {})

\* broadcast_to_conversation from the next step of its for loop (line 94)
OuterRun(b, ac, cp) ==
    IF b.odet \/ Cardinality(cp[b.key]) # b.oused
    THEN { Outcome("raise", b, ac) }
    ELSE LET must == (b.osnap \cap cp[b.key]) \ b.ovis
             may  == (cp[b.key] \ b.osnap) \ b.ovis
             Visit(u) ==
                 LET b1 == [b EXCEPT !.ovis = @ \cup {u}] IN
                 IF b.excl # NoUser /\ u = b.excl THEN OuterRun(b1, ac, cp)
                 ELSE IF u \notin DOMAIN ac THEN OuterRun(b1, ac, cp)
                 ELSE InnerRun([b1 EXCEPT !.cur = u, !.isnap = ac[u], !.ivis = {},
                                          !.iused = Cardinality(ac[u]), !.idet = FALSE,
                                          !.dead = {}], ac, cp)
         IN  UNION { Visit(u) : u \in must \cup may }
             \cup (IF must = {} THEN { Outcome("done", b, ac) } ELSE {})

\* the websockets of the users a broadcast addresses
Audience(key, excl, ac, cp) ==
    UNION { ac[u] : u \in (cp[key] \ {excl}) \cap DOMAIN ac }

\* broadcast_to_conversation(message, conversation_id, exclude_user) from its
\* call to its first await
StartBroadcast(ev, key, excl, ctx, ac, cp) ==
    IF key \in DOMAIN cp
    THEN OuterRun([IdleBc EXCEPT !.on = TRUE, !.ctx = ctx, !.ev = ev, !.key = key,
                                 !.excl = excl, !.osnap = cp[key],
                                 !.oused = Cardinality(cp[key]),
                                 !.aud = Audience(key, excl, ac, cp)], ac, cp)
    ELSE { Outcome("done", IdleBc, ac) }

\* The iterators of the other tasks after this step replaced the registry
\* dictionaries by ac1 and cp1: an iterator over a deleted entry is detached.
Detach(bcx, ac1, cp1) ==
    [x \in Sessions |->
        IF bcx[x].on
        THEN [bcx[x] EXCEPT !.idet = @ \/ (bcx[x].cur \notin DOMAIN ac1),
                            !.odet = @ \/ (bcx[x].key \notin DOMAIN cp1)]
        ELSE bcx[x]]

\* Where the task goes when its broadcast ends: handle_send_message and
\* handle_mark_as_read catch the exception (lines 298, 349); an exception of
\* broadcast_typing_status reaches the loop's `except Exception` (line 194),
\* which sends an error event; in disconnect it ends the task.
ErrorEvent == [NoEvent EXCEPT !.type = "error"]
PongEvent(ts) == [NoEvent EXCEPT !.type = "pong", !.ts = ts]

PcAfter(o, ctx) ==
    IF o.kind = "send" THEN "bcast"
    ELSE IF ctx = "disc" THEN "closed"
    ELSE IF ctx = "typing" /\ o.kind = "raise" THEN "reply"
    ELSE "recv"

BcAfter(o) == IF o.kind = "send" THEN o.b ELSE IdleBc

FrameAfter(o, ctx, old) ==
    IF o.kind = "raise" /\ ctx = "typing" THEN ErrorEvent
    ELSE IF o.kind = "send" THEN old ELSE NoEvent

(***************************************************************************)
(* Persistence.  Row ids are positions in the tables.                      *)
(***************************************************************************)
ConvIds == 1 .. MaxConvs
\* conversation ids a client may name
PathIds == 1 .. MaxConvs
Keys == { << c, f >> : c \in PathIds, f \in PathForms }

WsContents   == {Hello, Long, Blank}
RestContents == {Hello, Long}

IsParticipant(conv, u) == conv.traveler_id = u \/ conv.local_id = u

\* the query of websocket_chat_endpoint (lines 145-159)
SocketConversation(c, u) ==
    /\ c \in 1 .. Len(conversations)
    /\ conversations[c].committed
    /\ IsParticipant(conversations[c], u)
    /\ conversations[c].is_active

Summary3(at, content, sender) ==
    [last_message_at |-> at, last_message_content |-> content, last_message_sender_id |-> sender]

RowSummary(row) ==
    Summary3(row.last_message_at, row.last_message_content, row.last_message_sender_id)

\* What the unit of work writes when `new` was assigned to the attributes of
\* an object whose loaded values are `loaded`: only the columns whose value
\* differs from the loaded one are in the UPDATE.  The session keeps its
\* object across commits (expire_on_commit=False), so `loaded` is what this
\* session last read or wrote, not what the row holds now.
FlushSummary(row, loaded, new) ==
    [row EXCEPT
        !.last_message_at = IF new.last_message_at # loaded.last_message_at
                            THEN new.last_message_at ELSE @,
        !.last_message_content = IF new.last_message_content # loaded.last_message_content
                                 THEN new.last_message_content ELSE @,
        !.last_message_sender_id = IF new.last_message_sender_id # loaded.last_message_sender_id
                                   THEN new.last_message_sender_id ELSE @]

\* update(Conversation).values(...): every named column is written
UpdateSummary(row, new) ==
    [row EXCEPT !.last_message_at = new.last_message_at,
                !.last_message_content = new.last_message_content,
                !.last_message_sender_id = new.last_message_sender_id]

NewMessage(c, u, content, at) ==
    [conversation_id |-> c, sender_id |-> u, content |-> content, status |-> "sent",
     created_at |-> at, is_edited |-> FALSE, read_at |-> 0, delivered_at |-> 0,
     read_by |-> NoUser]

\* a WHERE clause without `Message.sender_id != user.id`
MarkEligibleAnySender(msg, m, ids, c, u) ==
    /\ m \in ids
    /\ msg.conversation_id = c
    /\ msg.status # "read"

\* the WHERE clause of handle_mark_as_read (lines 319-324)
MarkEligible(msg, m, ids, c, u) ==
    /\ m \in ids
    /\ msg.conversation_id = c
    /\ msg.sender_id # u
    /\ msg.status # "read"

\* the unread query of get_messages (lines 261-270)
UnreadFor(msg, c, u) ==
    /\ msg.conversation_id = c
    /\ msg.sender_id # u
    /\ msg.status # "read"

MarkRead(msg, u, at) == [msg EXCEPT !.status = "read", !.read_at = at, !.read_by = u]

\* Message.mark_as_read
MessageMarkAsRead(msg, at) ==
    IF msg.status # "read" THEN [msg EXCEPT !.status = "read", !.read_at = at] ELSE msg

\* a mark_as_delivered without `if self.status == MessageStatus.SENT`
MarkAsDeliveredUnguarded(msg, at) == [msg EXCEPT !.status = "delivered", !.delivered_at = at]

\* Message.mark_as_delivered
MessageMarkAsDelivered(msg, at) ==
    IF msg.status = "sent" THEN [msg EXCEPT !.status = "delivered", !.delivered_at = at] ELSE msg

(***************************************************************************)
(* Values of a websocket task that has not started.                       *)
(***************************************************************************)
NoSes == [user |-> NoUser, key |-> NoKey, conv |-> 0, code |-> 0]
\* tx: the database session has a transaction open (begun by a statement
\* and neither committed nor rolled back)
NoCache == [row |-> Summary3(0, Empty, NoUser), expired |-> FALSE, tx |-> FALSE]

\* Session.rollback() expires every object of the session, whatever
\* expire_on_commit says; reading an attribute of an expired object of an
\* AsyncSession raises MissingGreenlet.  RolledBack: the handler's
\* `except Exception` ran `await db.rollback()` inside a transaction.  In
\* handle_send_message `db.refresh(message)` (line 273) began one after the
\* commit; in handle_mark_as_read the commit of line 332 ended the
\* transaction, so the rollback of line 351 finds none and expires nothing.
RolledBack(o, ctx) == o.kind = "raise" /\ ctx = "send"
Expire(c, o, ctx) == IF RolledBack(o, ctx) THEN [c EXCEPT !.expired = TRUE] ELSE c

(***************************************************************************)
(* websocket_chat_endpoint: the finally clause (lines 204-206), that is    *)
(* manager.disconnect up to its first await or its end.                    *)
(***************************************************************************)
\* a handler whose exit does not reach manager.disconnect
FinallySkipsDisconnect(t, u, k) ==
    /\ pc' = [pc EXCEPT ![t] = "closed"]
    /\ frame' = [frame EXCEPT ![t] = NoEvent]
    /\ UNCHANGED <<regVars, bc, calls>>

FinallyAs(t, u, k) ==
    LET ac1   == DisconnectAC(active_connections, t, u)
        cp1   == DisconnectCP(conversation_participants, ac1, u, k)
        notif == DisconnectNotifies(typing_status, ac1, u, k)
        outs  == IF notif
                 THEN StartBroadcast([TypingEvent(k, u, FALSE, clock) EXCEPT
                                         !.via = t, !.cleared = typing_status[u][k]],
                                     k, u, "disc", ac1, cp1)
                 ELSE { Outcome("done", IdleBc, ac1) }
    IN  \E o \in outs :
            /\ active_connections' = o.ac
            /\ conversation_participants' = cp1
            /\ typing_status' = DisconnectTS(typing_status, ac1, u, k)
            /\ pc' = [pc EXCEPT ![t] = PcAfter(o, "disc")]
            /\ bc' = [Detach(bc, o.ac, cp1) EXCEPT ![t] = BcAfter(o)]
            /\ calls' = [calls EXCEPT ![t].unreg = @ + 1]
            /\ frame' = [frame EXCEPT ![t] = NoEvent]

FinallyStep(t) == FinallyAs(t, ses[t].user, ses[t].key)

\* the requests clients made so far: connections, and frames and REST requests
Opened == Cardinality({ x \in Sessions : pc[x] # "new" })
Budget == Opened + clock < MaxWork

\* websockets are opened in the order of their numbers
NextSocket(t) ==
    /\ Budget
    /\ pc[t] = "new"
    /\ \A x \in Sessions : x < t => pc[x] # "new"

\* get_current_user_websocket(token, db): the identities the verifier returns
\* for the tokens it accepts.  An identity is a plain value: its id can be
\* read at any time, also after the handler's database session rolled back.
Verified == Users

\* lines 135-142: no token, or a token the verifier rejects
OpenNoToken(t) ==
    /\ NextSocket(t)
    /\ pc' = [pc EXCEPT ![t] = "closed"]
    /\ ses' = [ses EXCEPT ![t] = [NoSes EXCEPT !.code = 1008]]
    /\ client_state' = [client_state EXCEPT ![t] = "DISCONNECTED"]
    /\ UNCHANGED <<regVars, open, bc, cache, frame, inbox, dbVars, clock, calls>>

\* lines 161-163 and the finally clause: the conversation is not found
OpenNotFound(t, u, k) ==
    /\ NextSocket(t)
    /\ ~SocketConversation(k[1], u)
    /\ ses' = [ses EXCEPT ![t] = [user |-> u, key |-> k, conv |-> 0, code |-> 1003]]
    /\ client_state' = [client_state EXCEPT ![t] = "DISCONNECTED"]
    /\ FinallyAs(t, u, k)
    /\ UNCHANGED <<open, cache, inbox, dbVars, clock>>

\* a path id that is not a well-formed UUID names no conversation
BadKey == << 0, "malformed" >>

\* lines 145-159 for such a path id: the comparison with the UUID column
\* makes db.execute raise, `except Exception` (lines 201-202) logs it, the
\* finally clause runs and the handler returns without a call of close
OpenBadId(t, u) ==
    /\ NextSocket(t)
    /\ ses' = [ses EXCEPT ![t] = [user |-> u, key |-> BadKey, conv |-> 0, code |-> 0]]
    /\ FinallyAs(t, u, BadKey)
    /\ UNCHANGED <<open, client_state, cache, inbox, dbVars, clock>>

\* lines 133-159 for a caller the conversation query accepts; the task is
\* then suspended in `await websocket.accept()` (line 32)
OpenOk(t, u, k) ==
    /\ NextSocket(t)
    /\ SocketConversation(k[1], u)
    /\ pc' = [pc EXCEPT ![t] = "accept"]
    /\ ses' = [ses EXCEPT ![t] = [user |-> u, key |-> k, conv |-> k[1], code |-> 0]]
    /\ open' = [open EXCEPT ![t] = TRUE]
    /\ cache' = [cache EXCEPT ![t] = [row |-> RowSummary(conversations[k[1]]),
                                      expired |-> FALSE, tx |-> TRUE]]
    /\ UNCHANGED <<regVars, client_state, bc, frame, inbox, dbVars, clock, calls>>

\* the client or the network closes the transport
ClientClose(t) ==
    /\ pc[t] \notin {"new", "closed"}
    /\ open[t]
    /\ open' = [open EXCEPT ![t] = FALSE]
    /\ UNCHANGED <<regVars, pc, ses, client_state, bc, cache, frame, inbox, dbVars, clock, calls>>

\* manager.connect (lines 30-48) after accept returned, up to the await of
\* the connection_established send (line 169); accept raises on a closed
\* transport and the handler goes to its finally clause
Accept(t) ==
    /\ pc[t] = "accept"
    /\ IF open[t]
       THEN /\ active_connections' = ConnectAC(active_connections, t, ses[t].user)
            /\ conversation_participants' =
                   ConnectCP(conversation_participants, ses[t].user, ses[t].key)
            /\ typing_status' = ConnectTS(typing_status, ses[t].user)
            /\ client_state' = [client_state EXCEPT ![t] = "CONNECTED"]
            /\ pc' = [pc EXCEPT ![t] = "hello"]
            /\ calls' = [calls EXCEPT ![t].reg = @ + 1]
            /\ UNCHANGED <<bc, clock, frame>>
       ELSE /\ FinallyStep(t)
            /\ UNCHANGED <<client_state, clock>>
    /\ UNCHANGED <<ses, open, cache, inbox, dbVars>>

\* the connection_established send (lines 169-174) completes or raises
Established(t) ==
    /\ pc[t] = "hello"
    /\ IF open[t]
       THEN /\ inbox' = [inbox EXCEPT ![t] =
                   Append(@, Event("connection_established", ses[t].key, ses[t].user, 0))]
            /\ pc' = [pc EXCEPT ![t] = "recv"]
            /\ UNCHANGED <<regVars, bc, clock, frame, calls>>
       ELSE /\ FinallyStep(t)
            /\ UNCHANGED <<inbox, clock>>
    /\ UNCHANGED <<ses, open, client_state, cache, dbVars>>

\* a handler that swallows WebSocketDisconnect and stays in its receive loop
RecvDisconnectStaysInLoop(t) ==
    /\ pc[t] = "recv"
    /\ ~open[t]
    /\ client_state' = [client_state EXCEPT ![t] = "DISCONNECTED"]
    /\ UNCHANGED <<regVars, pc, ses, open, bc, cache, frame, inbox, dbVars, clock, calls>>

\* receive_text raises WebSocketDisconnect (lines 185-187)
RecvDisconnect(t) ==
    /\ pc[t] = "recv"
    /\ ~open[t]
    /\ client_state' = [client_state EXCEPT ![t] = "DISCONNECTED"]
    /\ FinallyStep(t)
    /\ UNCHANGED <<ses, open, cache, inbox, dbVars, clock>>

\* a handler that takes the next frame while the last one is still handled
CanReceiveWhileHandling(t) == pc[t] \notin {"new", "accept", "hello", "closed"} /\ open[t] /\ Budget

\* receive_text (line 180) returns a frame: the handler is back at the top
\* of its loop and the transport is open
CanReceive(t) == pc[t] = "recv" /\ open[t] /\ Budget

\* a ping frame (lines 230-235): the pong send is awaited
RecvPing(t) ==
    /\ CanReceive(t)
    /\ clock' = clock + 1
    /\ pc' = [pc EXCEPT ![t] = "reply"]
    /\ frame' = [frame EXCEPT ![t] = PongEvent(clock + 1)]
    /\ UNCHANGED <<regVars, ses, open, client_state, bc, cache, inbox, dbVars, calls>>

\* a frame that is not JSON (lines 188-193) or has an unknown type (237-242)
RecvMalformed(t) ==
    /\ CanReceive(t)
    /\ clock' = clock + 1
    /\ pc' = [pc EXCEPT ![t] = "reply"]
    /\ frame' = [frame EXCEPT ![t] = ErrorEvent]
    /\ UNCHANGED <<regVars, ses, open, client_state, bc, cache, inbox, dbVars, calls>>

\* a handler that sends its reply and then ends the connection
ReplyThenClose(t) ==
    /\ pc[t] = "reply"
    /\ inbox' = IF open[t] THEN [inbox EXCEPT ![t] = Append(@, frame[t])] ELSE inbox
    /\ FinallyStep(t)
    /\ UNCHANGED <<ses, open, client_state, cache, dbVars, clock>>

\* a send_text to the own socket completes; on a closed transport it raises
\* and the handler ends in its finally clause
Reply(t) ==
    /\ pc[t] = "reply"
    /\ IF open[t]
       THEN /\ inbox' = [inbox EXCEPT ![t] = Append(@, frame[t])]
            /\ pc' = [pc EXCEPT ![t] = "recv"]
            /\ frame' = [frame EXCEPT ![t] = NoEvent]
            /\ UNCHANGED <<regVars, bc, clock, calls>>
       ELSE /\ FinallyStep(t)
            /\ UNCHANGED <<inbox, clock>>
    /\ UNCHANGED <<ses, open, client_state, cache, dbVars>>

\* typing_start / typing_stop (lines 221-225): broadcast_typing_status
RecvTyping(t, flag) ==
    /\ CanReceive(t)
    /\ LET u    == ses[t].user
           key  == StrId(ses[t].conv)
           outs == StartBroadcast(TypingEvent(key, u, flag, clock + 1), key, u, "typing",
                                  active_connections, conversation_participants)
       IN  IF cache[t].expired
           THEN \* str(conversation.id) raises: `except Exception` of the loop
                /\ pc' = [pc EXCEPT ![t] = "reply"]
                /\ frame' = [frame EXCEPT ![t] = ErrorEvent]
                /\ UNCHANGED <<active_connections, typing_status, bc>>
           ELSE \E o \in outs :
                    /\ active_connections' = o.ac
                    /\ typing_status' = SetTyping(typing_status, u, key, flag)
                    /\ pc' = [pc EXCEPT ![t] = PcAfter(o, "typing")]
                    /\ bc' = [bc EXCEPT ![t] = BcAfter(o)]
                    /\ frame' = [frame EXCEPT ![t] = FrameAfter(o, "typing", NoEvent)]
    /\ clock' = clock + 1
    /\ UNCHANGED <<conversation_participants, ses, open, client_state, cache, inbox,
                   dbVars, calls>>

\* a transport that hands the client the newest frame first
SendStepNewestFirst(t) ==
    /\ pc[t] = "bcast"
    /\ LET b    == bc[t]
           w    == b.target
           b1   == IF open[w] THEN b ELSE [b EXCEPT !.dead = @ \cup {w}]
           outs == InnerRun(b1, active_connections, conversation_participants)
       IN  \E o \in outs :
               /\ inbox' = IF open[w] THEN [inbox EXCEPT ![w] = << b.ev >> \o @] ELSE inbox
               /\ active_connections' = o.ac
               /\ pc' = [pc EXCEPT ![t] = PcAfter(o, b.ctx)]
               /\ bc' = [bc EXCEPT ![t] = BcAfter(o)]
               /\ frame' = [frame EXCEPT ![t] = FrameAfter(o, b.ctx, frame[t])]
               /\ cache' = [cache EXCEPT ![t] = Expire(@, o, b.ctx)]
    /\ UNCHANGED <<conversation_participants, typing_status, ses, open, client_state,
                   dbVars, clock, calls>>

\* one awaited send_text of a broadcast completes or raises (lines 78-85),
\* and the broadcast runs on to its next await or to its end
SendStep(t) ==
    /\ pc[t] = "bcast"
    /\ LET b    == bc[t]
           w    == b.target
           b1   == IF open[w] THEN b ELSE [b EXCEPT !.dead = @ \cup {w}]
           outs == InnerRun(b1, active_connections, conversation_participants)
       IN  \E o \in outs :
               /\ inbox' = IF open[w] THEN [inbox EXCEPT ![w] = Append(@, b.ev)] ELSE inbox
               /\ active_connections' = o.ac
               /\ pc' = [pc EXCEPT ![t] = PcAfter(o, b.ctx)]
               /\ bc' = [bc EXCEPT ![t] = BcAfter(o)]
               /\ frame' = [frame EXCEPT ![t] = FrameAfter(o, b.ctx, frame[t])]
               /\ cache' = [cache EXCEPT ![t] = Expire(@, o, b.ctx)]
    /\ UNCHANGED <<conversation_participants, typing_status, ses, open, client_state,
                   dbVars, clock, calls>>

\* a handler without the `if not content: return` of lines 253-254
RecvSendUnguarded(t, content) ==
    /\ CanReceive(t)
    /\ clock' = clock + 1
    /\ pc' = [pc EXCEPT ![t] = "db_send"]
    /\ frame' = [frame EXCEPT ![t] =
           [NoEvent EXCEPT !.type = "send_message", !.content = Strip(content),
                           !.ts = clock + 1]]
    /\ UNCHANGED <<regVars, ses, open, client_state, bc, cache, inbox, dbVars, calls>>

\* a send_message frame (lines 251-262) up to the first await of its
\* handler; content that is empty after strip() returns at once
RecvSend(t, content) ==
    /\ CanReceive(t)
    /\ clock' = clock + 1
    /\ IF Strip(content) = Empty
       THEN UNCHANGED <<pc, frame>>
       ELSE /\ pc' = [pc EXCEPT ![t] = "db_send"]
            /\ frame' = [frame EXCEPT ![t] =
                   [NoEvent EXCEPT !.type = "send_message", !.content = Strip(content),
                                   !.ts = clock + 1]]
    /\ UNCHANGED <<regVars, ses, open, client_state, bc, cache, inbox, dbVars, calls>>

\* handle_send_message on an expired Conversation object: conversation.id
\* (line 258) raises, `except Exception` rolls back (lines 298-300)
FailSend(t) ==
    /\ pc' = [pc EXCEPT ![t] = "recv"]
    /\ frame' = [frame EXCEPT ![t] = NoEvent]
    /\ UNCHANGED <<active_connections, bc, cache, dbVars>>

\* handle_send_message from the flush to the first send of its broadcast
\* (lines 264-296): the transaction commits, then broadcast_to_conversation
CommitSend(t) ==
    /\ pc[t] = "db_send"
    /\ IF cache[t].expired THEN FailSend(t) ELSE
       LET u    == ses[t].user
           c    == ses[t].conv
           text == frame[t].content
           at   == clock            \* created_at: now() of the INSERT
           m    == Len(messages) + 1
           new  == Summary3(at, Summary(text), u)
           outs == StartBroadcast(NewMessageEvent(StrId(c), u, m, text, at), StrId(c),
                                  NoUser, "send",
                                  active_connections, conversation_participants)
       IN  /\ messages' = Append(messages, NewMessage(c, u, text, at))
           /\ conversations' = [conversations EXCEPT
                                   ![c] = FlushSummary(@, cache[t].row, new)]
           /\ \E o \in outs :
                  /\ cache' = [cache EXCEPT ![t] = Expire([@ EXCEPT !.row = new, !.tx = TRUE], o, "send")]
                  /\ active_connections' = o.ac
                  /\ pc' = [pc EXCEPT ![t] = PcAfter(o, "send")]
                  /\ bc' = [bc EXCEPT ![t] = BcAfter(o)]
                  /\ frame' = [frame EXCEPT ![t] = FrameAfter(o, "send", frame[t])]
    /\ UNCHANGED <<conversation_participants, typing_status, ses, open, client_state,
                   inbox, clock, calls>>

\* a mark_as_read frame (lines 309-312) up to the first await of its
\* handler; an empty id list returns at once
RecvMark(t, ids) ==
    /\ CanReceive(t)
    /\ clock' = clock + 1
    /\ IF ids = {}
       THEN UNCHANGED <<pc, frame>>
       ELSE /\ pc' = [pc EXCEPT ![t] = "db_mark"]
            /\ frame' = [frame EXCEPT ![t] =
                   [NoEvent EXCEPT !.type = "mark_as_read", !.ids = ids, !.ts = clock + 1]]
    /\ UNCHANGED <<regVars, ses, open, client_state, bc, cache, inbox, dbVars, calls>>

\* handle_mark_as_read on an expired Conversation object: conversation.id
\* (line 320) raises, `except Exception` rolls back (lines 349-351)
FailMark(t) ==
    /\ pc' = [pc EXCEPT ![t] = "recv"]
    /\ frame' = [frame EXCEPT ![t] = NoEvent]
    /\ UNCHANGED <<active_connections, bc, cache, messages>>

\* handle_mark_as_read from the UPDATE to the first send of its broadcast
\* (lines 316-347)
CommitMark(t) ==
    /\ pc[t] = "db_mark"
    /\ IF cache[t].expired THEN FailMark(t) ELSE
       LET u    == ses[t].user
           c    == ses[t].conv
           ids  == frame[t].ids
           at   == frame[t].ts
           outs == StartBroadcast(MessagesReadEvent(StrId(c), u, ids, at), StrId(c),
                                  u, "mark",
                                  active_connections, conversation_participants)
       IN  /\ messages' = [m \in 1 .. Len(messages) |->
                              IF MarkEligible(messages[m], m, ids, c, u)
                              THEN MarkRead(messages[m], u, at) ELSE messages[m]]
           /\ \E o \in outs :
                  /\ active_connections' = o.ac
                  /\ pc' = [pc EXCEPT ![t] = PcAfter(o, "mark")]
                  /\ bc' = [bc EXCEPT ![t] = BcAfter(o)]
                  /\ frame' = [frame EXCEPT ![t] = FrameAfter(o, "mark", frame[t])]
                  /\ cache' = [cache EXCEPT ![t] = Expire([@ EXCEPT !.tx = FALSE], o, "mark")]
    /\ UNCHANGED <<conversation_participants, typing_status, ses, open, client_state,
                   inbox, conversations, clock, calls>>

(***************************************************************************)
(* Events that fail validation.  Nothing validates a frame before its      *)
(* handler runs: the bad value raises inside the handler's try block.      *)
(***************************************************************************)
\* a send_message whose message_type is no MessageType, or a mark_as_read
\* with an id that is no UUID, up to the first await of its handler: the
\* flush (line 265) that raises on the enum value, or the rollback that
\* follows UUID(mid) raising (line 319)
RecvInvalid(t, type) ==
    /\ CanReceive(t)
    /\ clock' = clock + 1
    /\ pc' = [pc EXCEPT ![t] = "invalid"]
    /\ frame' = [frame EXCEPT ![t] = [NoEvent EXCEPT !.type = type, !.ts = clock + 1]]
    /\ UNCHANGED <<regVars, ses, open, client_state, bc, cache, inbox, dbVars, calls>>

\* `except Exception` of the handler (lines 298-300, 349-351): the error is
\* logged, `await db.rollback()` returns and the handler returns None; the
\* flush of a send_message began a transaction if none was open
RejectInvalid(t) ==
    /\ pc[t] = "invalid"
    /\ pc' = [pc EXCEPT ![t] = "recv"]
    /\ frame' = [frame EXCEPT ![t] = NoEvent]
    /\ cache' = [cache EXCEPT ![t] =
           IF @.tx \/ frame[t].type = "send_message"
           THEN [@ EXCEPT !.expired = TRUE, !.tx = FALSE]
           ELSE @]
    /\ UNCHANGED <<regVars, ses, open, client_state, bc, inbox, dbVars, clock, calls>>

(***************************************************************************)
(* Failures of the database while a handler awaits it.  The handler's      *)
(* `except Exception` logs and runs `await db.rollback()` inside the open  *)
(* transaction, which expires the handler's Conversation object.           *)
(***************************************************************************)
\* handle_send_message: flush (line 265) or commit (line 272) raises and
\* the INSERT and the summary UPDATE are undone
FlushOrCommitFails(t) ==
    /\ pc[t] = "db_send"
    /\ ~cache[t].expired
    /\ pc' = [pc EXCEPT ![t] = "recv"]
    /\ frame' = [frame EXCEPT ![t] = NoEvent]
    /\ cache' = [cache EXCEPT ![t].expired = TRUE]
    /\ UNCHANGED <<regVars, ses, open, client_state, bc, inbox, dbVars, clock, calls>>

\* handle_send_message: the transaction committed (line 272) and
\* db.refresh(message) (line 273) raises; the rollback of lines 298-300
\* finds nothing of the message left to undo and the broadcast is skipped
RefreshFails(t) ==
    /\ pc[t] = "db_send"
    /\ ~cache[t].expired
    /\ LET u   == ses[t].user
           c   == ses[t].conv
           new == Summary3(clock, Summary(frame[t].content), u)
       IN  /\ messages' = Append(messages, NewMessage(c, u, frame[t].content, clock))
           /\ conversations' = [conversations EXCEPT
                                   ![c] = FlushSummary(@, cache[t].row, new)]
           /\ cache' = [cache EXCEPT ![t] = [row |-> new, expired |-> TRUE, tx |-> TRUE]]
    /\ pc' = [pc EXCEPT ![t] = "recv"]
    /\ frame' = [frame EXCEPT ![t] = NoEvent]
    /\ UNCHANGED <<regVars, ses, open, client_state, bc, inbox, clock, calls>>

\* handle_mark_as_read: the UPDATE (line 330) or the commit (line 332)
\* raises and no status is changed
UpdateOrCommitFails(t) ==
    /\ pc[t] = "db_mark"
    /\ ~cache[t].expired
    /\ pc' = [pc EXCEPT ![t] = "recv"]
    /\ frame' = [frame EXCEPT ![t] = NoEvent]
    /\ cache' = [cache EXCEPT ![t].expired = TRUE]
    /\ UNCHANGED <<regVars, ses, open, client_state, bc, inbox, dbVars, clock, calls>>

(***************************************************************************)
(* REST endpoints of chats.py; each request is one transaction.            *)
(***************************************************************************)
ExistingConversation(u, l) ==
    \E c \in 1 .. Len(conversations) :
        /\ conversations[c].traveler_id = u
        /\ conversations[c].local_id = l
        /\ conversations[c].is_active
        /\ conversations[c].committed

\* create_conversation (lines 126-180) when it creates, up to the await of
\* its flush: the guide is looked up, no committed active conversation of
\* the pair is found, and the new row is inserted in the request's open
\* transaction, where no other transaction sees it.  A row keeps the
\* request's initial_message in the field initial.
CreateConversation(u, l, text) ==
    /\ Budget
    /\ Len(conversations) < MaxConvs
    /\ Role[l] = "local"
    /\ ~ExistingConversation(u, l)
    /\ clock' = clock + 1
    /\ conversations' = Append(conversations,
           [traveler_id |-> u, local_id |-> l, is_active |-> TRUE,
            last_message_at |-> clock + 1, last_message_content |-> Summary(text),
            last_message_sender_id |-> u, committed |-> FALSE, initial |-> text])
    /\ UNCHANGED <<regVars, pc, ses, open, client_state, bc, cache, frame, inbox,
                   messages, calls>>

\* create_conversation from the flush to its return (lines 182-196): the
\* initial message is added and the transaction commits
CommitConversation(c) ==
    /\ c \in 1 .. Len(conversations)
    /\ ~conversations[c].committed
    /\ conversations' = [conversations EXCEPT ![c].committed = TRUE]
    /\ messages' = Append(messages,
           NewMessage(c, conversations[c].traveler_id, conversations[c].initial,
                      conversations[c].last_message_at))
    /\ UNCHANGED <<regVars, pc, ses, open, client_state, bc, cache, frame, inbox,
                   clock, calls>>

\* send_message of chats.py (lines 304-362)
RestSendMessage(u, c, text) ==
    /\ Budget
    /\ SocketConversation(c, u)
    /\ clock' = clock + 1
    /\ messages' = Append(messages, NewMessage(c, u, text, clock + 1))
    /\ conversations' = [conversations EXCEPT
                            ![c] = UpdateSummary(@, Summary3(clock + 1, Summary(text), u))]
    /\ UNCHANGED <<regVars, pc, ses, open, client_state, bc, cache, frame, inbox, calls>>

\* edit_message (lines 374-428); the 15 minute window is open
EditedMessage(msg, text) == [msg EXCEPT !.content = text, !.is_edited = TRUE]

EditMessage(u, m, text) ==
    /\ Budget
    /\ m \in 1 .. Len(messages)
    /\ messages[m].sender_id = u
    /\ messages[m].content # text
    /\ clock' = clock + 1
    /\ messages' = [messages EXCEPT ![m] = EditedMessage(@, text)]
    /\ UNCHANGED <<regVars, pc, ses, open, client_state, bc, cache, frame, inbox,
                   conversations, calls>>

\* get_messages (lines 208-293): the automatic read marking
GetMessages(u, c) ==
    /\ Budget
    /\ c \in 1 .. Len(conversations)
    /\ IsParticipant(conversations[c], u)
    /\ \E m \in 1 .. Len(messages) : UnreadFor(messages[m], c, u)
    /\ clock' = clock + 1
    /\ LET unread == { m \in 1 .. Len(messages) : UnreadFor(messages[m], c, u) }
       IN  messages' = [m \in 1 .. Len(messages) |->
                           IF m \in unread THEN MarkRead(messages[m], u, clock + 1)
                           ELSE messages[m]]
    /\ UNCHANGED <<regVars, pc, ses, open, client_state, bc, cache, frame, inbox,
                   conversations, calls>>

\* Message.mark_as_read and Message.mark_as_delivered called on a stored row
CallMarkAsRead(m) ==
    /\ Budget
    /\ m \in 1 .. Len(messages)
    /\ clock' = clock + 1
    /\ messages' = [messages EXCEPT ![m] = MessageMarkAsRead(@, clock + 1)]
    /\ UNCHANGED <<regVars, pc, ses, open, client_state, bc, cache, frame, inbox,
                   conversations, calls>>

CallMarkAsDelivered(m) ==
    /\ Budget
    /\ m \in 1 .. Len(messages)
    /\ clock' = clock + 1
    /\ messages' = [messages EXCEPT ![m] = MessageMarkAsDelivered(@, clock + 1)]
    /\ UNCHANGED <<regVars, pc, ses, open, client_state, bc, cache, frame, inbox,
                   conversations, calls>>

(***************************************************************************)
(* Specifications.                                                         *)
(***************************************************************************)
\* connection attempts the handler refuses
Refuse(t) ==
    \/ OpenNoToken(t)
    \/ \E u \in Verified, k \in Keys : OpenNotFound(t, u, k)
    \/ \E u \in Verified : OpenBadId(t, u)

\* the life of an accepted connection: transport loss, clean-up, fan-out
Serve(t) ==
    \/ ClientClose(t)
    \/ Accept(t)
    \/ Established(t)
    \/ RecvDisconnect(t)
    \/ SendStep(t)

\* typing events, and the error event that answers one that raised
Typing(t) ==
    \/ \E flag \in BOOLEAN : RecvTyping(t, flag)
    \/ Reply(t)

\* events that touch the registry only
Control(t) ==
    \/ RecvPing(t)
    \/ RecvMalformed(t)
    \/ Typing(t)

\* events that persist
Chat(t) ==
    \/ \E text \in WsContents : RecvSend(t, text)
    \/ CommitSend(t)
    \/ \E ids \in SUBSET (1 .. Len(messages)) : RecvMark(t, ids)
    \/ CommitMark(t)

\* REST requests that write a message
Write ==
    \/ \E u \in Users, l \in Users, text \in RestContents : CreateConversation(u, l, text)
    \/ \E c \in ConvIds : CommitConversation(c)
    \/ \E u \in Users, c \in ConvIds, text \in RestContents : RestSendMessage(u, c, text)
    \/ \E u \in Users, m \in 1 .. Len(messages), text \in RestContents : EditMessage(u, m, text)

\* REST requests that read messages
Fetch == \E u \in Users, c \in ConvIds : GetMessages(u, c)

\* The server starts with an empty registry over the database that one
\* create_conversation request left: A wrote "Hello" to guide B.
Init ==
    /\ active_connections = EmptyDict
    /\ conversation_participants = EmptyDict
    /\ typing_status = EmptyDict
    /\ pc = [t \in Sessions |-> "new"]
    /\ ses = [t \in Sessions |-> NoSes]
    /\ open = [t \in Sessions |-> FALSE]
    /\ client_state = [t \in Sessions |-> "CONNECTING"]
    /\ bc = [t \in Sessions |-> IdleBc]
    /\ cache = [t \in Sessions |-> NoCache]
    /\ frame = [t \in Sessions |-> NoEvent]
    /\ inbox = [t \in Sessions |-> << >>]
    /\ conversations =
         << [traveler_id |-> "A", local_id |-> "B", is_active |-> TRUE,
             last_message_at |-> 0, last_message_content |-> Summary(Hello),
             last_message_sender_id |-> "A", committed |-> TRUE, initial |-> Hello] >>
    /\ messages = << NewMessage(1, "A", Hello, 0) >>
    /\ clock = 0
    /\ calls = [t \in Sessions |-> [reg |-> 0, unreg |-> 0]]

Next ==
    \/ \E t \in Sessions :
          \/ Refuse(t)
          \/ \E u \in Verified, k \in Keys : OpenOk(t, u, k)
          \/ Serve(t)
          \/ Control(t)
          \/ Chat(t)
    \/ Write
    \/ Fetch

Spec == Init /\ [][Next]_vars

\* every conversation, refused attempts, typing: the registry
RegistryNext ==
    \/ \E t \in Sessions :
          \/ Refuse(t)
          \/ \E u \in Verified, k \in Keys : OpenOk(t, u, k)
          \/ Serve(t)
          \/ Typing(t)
    \/ \E u \in Users, l \in Users : CreateConversation(u, l, Hello)
    \/ \E c \in ConvIds : CommitConversation(c)

SpecRegistry == Init /\ [][RegistryNext]_vars

\* the server over a database that holds no conversation yet
InitFresh ==
    /\ active_connections = EmptyDict
    /\ conversation_participants = EmptyDict
    /\ typing_status = EmptyDict
    /\ pc = [t \in Sessions |-> "new"]
    /\ ses = [t \in Sessions |-> NoSes]
    /\ open = [t \in Sessions |-> FALSE]
    /\ client_state = [t \in Sessions |-> "CONNECTING"]
    /\ bc = [t \in Sessions |-> IdleBc]
    /\ cache = [t \in Sessions |-> NoCache]
    /\ frame = [t \in Sessions |-> NoEvent]
    /\ inbox = [t \in Sessions |-> << >>]
    /\ conversations = << >>
    /\ messages = << >>
    /\ clock = 0
    /\ calls = [t \in Sessions |-> [reg |-> 0, unreg |-> 0]]

\* create_conversation requests, which may overlap, and connections to the
\* conversations they create
CreateNext ==
    \/ \E u \in Users, l \in Users, text \in RestContents : CreateConversation(u, l, text)
    \/ \E c \in ConvIds : CommitConversation(c)
    \/ \E t \in Sessions :
          \/ \E u \in Verified, k \in Keys : OpenOk(t, u, k)
          \/ Serve(t)
          \/ Typing(t)

SpecCreate == InitFresh /\ [][CreateNext]_vars

\* one conversation, every event that does not persist
FanoutNext ==
    \E t \in Sessions :
        \/ \E u \in Verified : OpenOk(t, u, StrId(1))
        \/ Serve(t)
        \/ Control(t)

SpecFanout == Init /\ [][FanoutNext]_vars

\* the steps the event loop takes for the handler task of websocket t: every
\* await of the handler (accept, send_text, receive_text on a closed
\* transport) completes or raises, and asyncio runs every ready task
Handler(t) ==
    \/ Accept(t)
    \/ Established(t)
    \/ RecvDisconnect(t)
    \/ SendStep(t)
    \/ Reply(t)

\* one conversation: connections, transport loss, typing events and the
\* clean-up of closed sessions
ReleaseNext ==
    \E t \in Sessions :
        \/ \E u \in Verified : OpenOk(t, u, StrId(1))
        \/ Serve(t)
        \/ Typing(t)

\* the same under the event loop's fair scheduling of handler tasks
SpecRelease ==
    Init /\ [][ReleaseNext]_vars /\ \A t \in Sessions : WF_vars(Handler(t))

\* one conversation, the events that persist and the REST endpoints
ChatNext ==
    \/ \E t \in Sessions :
          \/ \E u \in Verified : OpenOk(t, u, StrId(1))
          \/ Serve(t)
          \/ Chat(t)
    \/ Write

SpecChat == Init /\ [][ChatNext]_vars

\* one conversation whose only frames are send_message frames
SendNext ==
    \E t \in Sessions :
        \/ \E u \in Verified : OpenOk(t, u, StrId(1))
        \/ Serve(t)
        \/ \E text \in WsContents : RecvSend(t, text)
        \/ CommitSend(t)

SpecSend == Init /\ [][SendNext]_vars

\* several conversations: connections to any of them, messages sent through
\* them and conversations created meanwhile
RoomsNext ==
    \/ \E t \in Sessions :
          \/ \E u \in Verified, k \in Keys : OpenOk(t, u, k)
          \/ Serve(t)
          \/ RecvSend(t, Hello)
          \/ CommitSend(t)
    \/ \E u \in Users, l \in Users : CreateConversation(u, l, Hello)
    \/ \E c \in ConvIds : CommitConversation(c)

SpecRooms == Init /\ [][RoomsNext]_vars

\* the id of conversation c in a textual form other than the one str()
\* gives (upper case, without hyphens, in braces): the database accepts
\* it as the same UUID, as a dictionary key it is another string
AliasId(c) == << c, "alias" >>

\* one conversation that clients name in either textual form of its id
AliasNext ==
    \E t \in Sessions :
        \/ \E u \in Verified, k \in {StrId(1), AliasId(1)} : OpenOk(t, u, k)
        \/ Serve(t)
        \/ Typing(t)

SpecAlias == Init /\ [][AliasNext]_vars

\* events that fail validation
Invalid(t) ==
    \/ \E type \in {"send_message", "mark_as_read"} : RecvInvalid(t, type)
    \/ RejectInvalid(t)

\* one conversation, read receipts and events that fail validation
ValidationNext ==
    \E t \in Sessions :
        \/ \E u \in Verified : OpenOk(t, u, StrId(1))
        \/ Serve(t)
        \/ \E ids \in SUBSET (1 .. Len(messages)) : RecvMark(t, ids)
        \/ CommitMark(t)
        \/ Invalid(t)

SpecValidation == Init /\ [][ValidationNext]_vars

\* a database call of a handler raises
Outage(t) ==
    \/ FlushOrCommitFails(t)
    \/ RefreshFails(t)
    \/ UpdateOrCommitFails(t)

\* one conversation and the events that persist, over a database whose
\* calls may fail
OutageNext ==
    \E t \in Sessions :
        \/ \E u \in Verified : OpenOk(t, u, StrId(1))
        \/ Serve(t)
        \/ Chat(t)
        \/ Outage(t)

SpecOutage == Init /\ [][OutageNext]_vars

\* the writers of Message.status that requests reach
ReceiptsNext ==
    \/ \E t \in Sessions :
          \/ \E u \in Verified : OpenOk(t, u, StrId(1))
          \/ Serve(t)
          \/ \E ids \in SUBSET (1 .. Len(messages)) : RecvMark(t, ids)
          \/ CommitMark(t)
    \/ Write
    \/ Fetch

SpecReceipts == Init /\ [][ReceiptsNext]_vars

\* every writer of Message.status, the methods of the model class included
Methods ==
    \E m \in 1 .. Len(messages) :
        \/ CallMarkAsRead(m)
        \/ CallMarkAsDelivered(m)

StatusNext ==
    \/ ReceiptsNext
    \/ Methods

SpecStatus == Init /\ [][StatusNext]_vars

(***************************************************************************)
(* Properties.                                                             *)
(***************************************************************************)
\* a session that connect registered and disconnect has not yet unregistered
Live(t) == calls[t].reg > calls[t].unreg

Attendees(k) ==
    IF k \in DOMAIN conversation_participants THEN conversation_participants[k] ELSE {}

LiveUsers(k) == { ses[t].user : t \in { x \in Sessions : Live(x) /\ ses[x].key = k } }

\* C1: registry consistency.  In every state each conversation's attendee
\* set is exactly the set of users with at least one session that was
\* registered into that conversation and is not yet unregistered.
C1_RegistryConsistent == \A k \in Keys : Attendees(k) = LiveUsers(k)

\* C2: every session that websocket_chat_endpoint registered is
\* unregistered exactly once: manager.disconnect is never called twice for a
\* session, and a handler that has ended after registering its session has
\* called it.
C2_UnregisteredOnce ==
    \A t \in Sessions :
        /\ calls[t].reg <= 1
        /\ calls[t].unreg <= 1
        /\ (pc[t] = "closed" /\ calls[t].reg = 1) => calls[t].unreg = 1

\* a registered session whose connection_established send failed has ended
C2_Witness ==
    \E t \in Sessions :
        /\ pc[t] = "closed"
        /\ calls[t].reg = 1
        /\ calls[t].unreg = 1
        /\ inbox[t] = << >>

\* how often event e is in the sequence of events a client received
Count(seq, e) == Cardinality({ i \in 1 .. Len(seq) : seq[i] = e })

RegisteredIn(ac, w) == \E u \in DOMAIN ac : w \in ac[u]

\* the step ends the broadcast task t was suspended in
BroadcastEnds(t) == bc[t].on /\ ~bc'[t].on

\* the websockets the broadcast of t addressed when it started that are
\* still registered and open when it ends
Kept(t) == { w \in bc[t].aud : open'[w] /\ RegisteredIn(active_connections', w) }

\* C3: a broadcast that was suspended in a send while other tasks registered
\* or unregistered sessions does not raise (a typing event is not answered
\* by an error event) and is not cut short: every session it addressed that
\* stays registered and open has received the event when it ends.
C3_BroadcastUndisturbed ==
    [][\A t \in Sessions :
          BroadcastEnds(t) =>
              /\ ~(bc[t].ctx = "typing" /\ pc'[t] = "reply")
              /\ \A w \in Kept(t) : Count(inbox'[w], bc[t].ev) >= 1]_vars

\* C6: broadcast_to_conversation(event, C, exclude_user = U) delivers the
\* event exactly once to every open session of every attendee other than U,
\* and to no session of U.
C6_ExcludingBroadcastComplete ==
    [][\A t \in Sessions :
          (BroadcastEnds(t) /\ bc[t].excl # NoUser) =>
              /\ \A w \in Kept(t) : Count(inbox'[w], bc[t].ev) = 1
              /\ \A w \in Sessions :
                     ses[w].user = bc[t].excl => Count(inbox'[w], bc[t].ev) = 0]_vars

\* the step is the commit of a send_message of websocket task t
SendCommits(t) ==
    /\ pc[t] = "db_send"
    /\ pc'[t] # "db_send"
    /\ Len(messages') = Len(messages) + 1

\* C4: after any successful send_message on any session, whatever the other
\* sessions and the other participant sent before, the stored conversation's
\* last_message_content is the new message's content truncated to 100
\* characters and its last_message_sender_id is the sender of that message.
C4_SummaryAfterSend ==
    [][\A t \in Sessions :
          SendCommits(t) =>
              LET msg == messages'[Len(messages')]
                  row == conversations'[msg.conversation_id]
              IN  /\ msg.sender_id = ses[t].user
                  /\ row.last_message_content = Summary(msg.content)
                  /\ row.last_message_sender_id = msg.sender_id]_vars

\* the message of conversation c that was committed last
MessagesOf(c) == { m \in 1 .. Len(messages) : messages[m].conversation_id = c }
LastMessage(c) == CHOOSE m \in MessagesOf(c) : \A x \in MessagesOf(c) : x <= m

\* C5: in every state the denormalized last-message fields of a conversation
\* are those of the most recently committed message of that conversation, in
\* its current version.
C5_SummaryIsLastMessage ==
    \A c \in 1 .. Len(conversations) :
        MessagesOf(c) # {} =>
            /\ conversations[c].last_message_content = Summary(messages[LastMessage(c)].content)
            /\ conversations[c].last_message_sender_id = messages[LastMessage(c)].sender_id

\* C7: when send_message has committed a message, its new_message event is
\* delivered to every open session of every attendee, the sender's included:
\* when the broadcast ends, every session it addressed that is still
\* registered and open has received the event.
C7_NewMessageReachesAll ==
    [][\A t \in Sessions :
          (BroadcastEnds(t) /\ bc[t].ctx = "send") =>
              /\ \A w \in Kept(t) : Count(inbox'[w], bc[t].ev) >= 1]_vars

\* the step is the UPDATE and commit of a mark_as_read of websocket task t
MarkCommits(t) == pc[t] = "db_mark" /\ pc'[t] # "db_mark"

\* C9: handling mark_as_read for message ids that are all read already is a
\* no-op: no row of messages changes and no messages_read event is sent.
C9_SecondMarkIsNoOp ==
    [][\A t \in Sessions :
          (MarkCommits(t) /\ \A m \in frame[t].ids : messages[m].status = "read") =>
              /\ messages' = messages
              /\ ~bc'[t].on]_vars

\* the order of MessageStatus along which a message moves
Rank(st) == IF st = "sent" THEN 1 ELSE IF st = "delivered" THEN 2 ELSE 3

\* C8: whatever operation touches a message, its status only moves forward
\* along sent, delivered, read.
C8_StatusMonotone ==
    [][\A m \in 1 .. Len(messages) :
          Rank(messages'[m].status) >= Rank(messages[m].status)]_vars

\* a message that was delivered and then read
C8_Witness ==
    \E m \in 1 .. Len(messages) :
        /\ messages[m].status = "read"
        /\ messages[m].delivered_at > 0
        /\ messages[m].read_at > messages[m].delivered_at

\* C10: no request of user U changes the status of a message U sent: a
\* message leaves status sent only through a request of the conversation's
\* other participant (read_by is the user whose request changed the status).
C10_NoSelfReadReceipt ==
    \A m \in 1 .. Len(messages) :
        /\ messages[m].read_by # messages[m].sender_id
        /\ messages[m].status # "sent" =>
               /\ messages[m].read_by \in Users
               /\ IsParticipant(conversations[messages[m].conversation_id], messages[m].read_by)

\* a client has received the messages_read event of a mark_as_read that the
\* sender of a message made for it, and the message is still in status sent
C10_Witness ==
    \E w \in Sessions : \E i \in 1 .. Len(inbox[w]) :
        /\ inbox[w][i].type = "messages_read"
        /\ \E m \in inbox[w][i].ids :
               /\ messages[m].sender_id = inbox[w][i].user
               /\ messages[m].status = "sent"

\* no messages_read event with an empty id list is in flight or received
NoEmptyReadEvent ==
    /\ \A t \in Sessions :
           bc[t].on /\ bc[t].ev.type = "messages_read" => bc[t].ev.ids # {}
    /\ \A w \in Sessions : \A i \in 1 .. Len(inbox[w]) :
           inbox[w][i].type = "messages_read" => inbox[w][i].ids # {}

\* C11: handling mark_as_read with a non-empty id list sets status read and
\* read_at for exactly the listed messages that are in the session's
\* conversation, not read yet and not sent by the requester, and leaves
\* every other message as it was; an empty list is never broadcast.
C11_MarkReadsExactlyEligible ==
    [][/\ NoEmptyReadEvent'
       /\ \A t \in Sessions :
            MarkCommits(t) =>
                \A m \in 1 .. Len(messages) :
                    IF /\ m \in frame[t].ids
                       /\ messages[m].conversation_id = ses[t].conv
                       /\ messages[m].status # "read"
                       /\ messages[m].sender_id # ses[t].user
                    THEN /\ messages'[m].status = "read"
                         /\ messages'[m].read_at = frame[t].ts
                         /\ messages'[m].content = messages[m].content
                    ELSE messages'[m] = messages[m]]_vars

\* the sessions of user u that are registered and not yet unregistered
LiveSessions(u) == { t \in Sessions : Live(t) /\ ses[t].user = u }

\* user u has a typing flag that is true
TypingSomewhere(u) ==
    /\ u \in DOMAIN typing_status
    /\ \E k \in DOMAIN typing_status[u] : typing_status[u][k]

\* the step unregisters session t
Unregisters(t) == calls'[t].unreg = calls[t].unreg + 1

\* C12: once the last live session of a user is unregistered, the user has
\* no typing flag that is true, for any conversation; a disconnect that
\* leaves the user another open live session leaves the user's flags as
\* they were.
C12_TypingClearedWithLastSession ==
    [][\A t \in Sessions :
          (Unregisters(t) /\ Live(t)) =>
              LET u == ses[t].user IN
              IF LiveSessions(u) = {t}
              THEN ~TypingSomewhere(u)'
              ELSE (\E x \in LiveSessions(u) \ {t} : open[x]) =>
                       typing_status'[u] = typing_status[u]]_vars

\* the handler of session t ends in this step
HandlerEnds(t) == pc[t] # "closed" /\ pc'[t] = "closed"

\* the open sessions registered for conversation key k of users other than u
OthersIn(k, u) ==
    { w \in Sessions : Live(w) /\ open[w] /\ ses[w].key = k /\ ses[w].user # u }

\* session w has received a typing_status false event for user u in
\* conversation key k that a disconnect emitted
GotTypingStop(w, u, k) ==
    \E i \in 1 .. Len(inbox[w]) :
        /\ inbox[w][i].type = "typing_status"
        /\ inbox[w][i].user = u
        /\ inbox[w][i].key = k
        /\ ~inbox[w][i].flag
        /\ inbox[w][i].via # 0

\* C13: when the last live session of a user who is typing in conversation
\* C has disconnected without a typing_stop, every open session of every
\* remaining attendee of C has received a typing_status event with
\* is_typing false for that user, emitted by the disconnect path.
C13_DisconnectStopsTyping ==
    [][\A t \in Sessions :
          /\ (HandlerEnds(t) /\ Unregisters(t) /\ LiveSessions(ses[t].user) = {t}) =>
                 \A k \in DOMAIN typing_status[ses[t].user] :
                     typing_status[ses[t].user][k] =>
                         \A w \in OthersIn(k, ses[t].user)' :
                             GotTypingStop(w, ses[t].user, k)'
          /\ (HandlerEnds(t) /\ BroadcastEnds(t) /\ bc[t].ctx = "disc" /\ bc[t].ev.cleared) =>
                 \A w \in Kept(t) : Count(inbox'[w], bc[t].ev) >= 1]_vars

\* C14: an error in one connection (its transport dying, its handler
\* raising, its disconnect running during another connection's broadcast)
\* never makes a different connection's task, busy broadcasting for its own
\* inbound event, receive an error event, abort that handling (rolling its
\* database session back) or terminate.
C14_ErrorsStayInTheirConnection ==
    [][\A t \in Sessions :
          (pc[t] = "bcast" /\ bc[t].ctx # "disc") =>
              /\ pc'[t] \in {"bcast", "recv"}
              /\ frame'[t] # ErrorEvent
              /\ cache'[t].expired = cache[t].expired]_vars

\* the transport of websocket t is closed and its handler has not ended yet
\* or the registry still holds the session
Held(t) ==
    /\ ~open[t]
    /\ pc[t] # "new"
    /\ (pc[t] # "closed" \/ RegisteredIn(active_connections, t))

\* C15: under fair scheduling, once the transport of a registered session
\* is closed, its handler eventually leaves the receive loop and reaches
\* the closed state, and the session is no longer in the user's session set.
\* A closed transport never reopens and an ended handler never restarts, so
\* a session with a closed transport that is not held at some later moment
\* has ended and left the registry for good.
C15_ClosedTransportReleased ==
    \A t \in Sessions : []<>(~Held(t))

\* a session that was registered and received frames has lost its transport,
\* left the receive loop on WebSocketDisconnect and been unregistered
C15_Witness ==
    \E t \in Sessions :
        /\ pc[t] = "closed"
        /\ ~open[t]
        /\ client_state[t] = "DISCONNECTED"
        /\ calls[t].reg = 1
        /\ calls[t].unreg = 1
        /\ Len(inbox[t]) >= 2
        /\ ~RegisteredIn(active_connections, t)

\* the handler of websocket t waits in receive_text with nothing in progress
Idle(t) == pc[t] = "recv" /\ ~bc[t].on /\ frame[t] = NoEvent

\* the handler of websocket t is inside the handling of one inbound frame
Handling(t) ==
    \/ pc[t] \in {"reply", "db_send", "db_mark"} /\ ~bc[t].on
    \/ pc[t] = "bcast" /\ bc[t].on /\ bc[t].ctx # "disc"

\* the step takes a frame from websocket t and suspends inside its handling
Takes(t) == clock' = clock + 1 /\ pc'[t] # pc[t]

\* C16: within one connection a frame is received only when the handling
\* of the frame before it, with its persistence and its broadcast, has
\* finished, and a socket never has two frames in handling at once.
C16_OneFrameAtATime ==
    [][\A t \in Sessions :
          /\ Takes(t) => (Idle(t) /\ Handling(t)')
          /\ (pc'[t] = "recv") => Idle(t)'
          /\ bc'[t].on => (pc'[t] = "bcast")
          /\ (pc'[t] \in {"db_send", "db_mark"}) =>
                 (frame'[t] # NoEvent /\ (pc[t] = pc'[t] => frame'[t] = frame[t]))]_vars

\* one connection alone has had two send_message frames handled, each with
\* its persistence and its broadcast, and waits for the next frame
C16_Witness ==
    \E t \in Sessions :
        /\ Idle(t)
        /\ \A x \in Sessions \ {t} : pc[x] = "new"
        /\ \E i, j \in 1 .. Len(inbox[t]) :
              /\ i < j
              /\ inbox[t][i].type = "new_message"
              /\ inbox[t][j].type = "new_message"
              /\ inbox[t][i].msg < inbox[t][j].msg
              /\ messages[inbox[t][j].msg].sender_id = ses[t].user

\* C17: a connection attempt without an accepted token is closed with the
\* policy-violation code 1008, an attempt for a conversation that does
\* not exist, is not active or does not include the caller is closed with
\* the not-found code 1003, and in all these cases the session is never
\* registered and receives no connection_established event.
C17_RefusedWithCode ==
    \A t \in Sessions :
        (pc[t] # "new" /\ ses[t].conv = 0) =>
            /\ ses[t].code = IF ses[t].user = NoUser THEN 1008 ELSE 1003
            /\ calls[t].reg = 0
            /\ ~RegisteredIn(active_connections, t)
            /\ inbox[t] = << >>

\* a database call of the handler of websocket t raised in this step and
\* the handler rolled back
PersistenceFails(t) ==
    /\ pc[t] \in {"db_send", "db_mark"}
    /\ ~cache[t].expired
    /\ cache'[t].expired

\* C18: when persistence fails during send_message or mark_as_read the
\* transaction is rolled back (no message is stored, no status and no
\* last-message field changes), no event is broadcast to any session, and
\* the connection stays open.
C18_FailedPersistenceLeavesNoTrace ==
    [][\A t \in Sessions :
          PersistenceFails(t) =>
              /\ messages' = messages
              /\ conversations' = conversations
              /\ inbox' = inbox
              /\ ~bc'[t].on
              /\ pc'[t] = "recv"
              /\ open'[t] = open[t]]_vars

\* the step ends the send_personal_message call that the broadcast of
\* websocket task t was suspended in
PersonalEnds(t) == bc[t].on /\ (~bc'[t].on \/ bc'[t].cur # bc[t].cur)

\* the sessions that call found not connected or failed to send to
Failed(t) == bc[t].dead \cup (IF open[bc[t].target] THEN {} ELSE {bc[t].target})

\* C19: send_personal_message delivers the event to every open session of
\* the user; a session whose transport is not open or whose send fails is
\* removed from the user's session set; such a failure neither prevents
\* delivery to the user's remaining sessions nor raises to the caller, and
\* no open session is ever removed by it.
C19_PersonalMessageDelivery ==
    [][\A t \in Sessions :
          PersonalEnds(t) =>
              /\ ~(bc[t].ctx = "typing" /\ pc'[t] = "reply")
              /\ \A w \in bc[t].isnap :
                     (open'[w] /\ RegisteredIn(active_connections', w)) =>
                         Count(inbox'[w], bc[t].ev) >= 1
              /\ \A w \in Failed(t) : ~RegisteredIn(active_connections', w)
              /\ \A w \in Sessions :
                     (open[w] /\ RegisteredIn(active_connections, w)) =>
                         RegisteredIn(active_connections', w)]_vars

\* C20: disconnect for a session that is not in the registry, including
\* the call the handler makes after it rejected a connection attempt,
\* raises no error, leaves the three registry mappings unchanged and emits
\* no event.
C20_UnregisterOfUnknownIsNoOp ==
    [][\A t \in Sessions :
          (Unregisters(t) /\ ~RegisteredIn(active_connections, t)) =>
              /\ active_connections' = active_connections
              /\ conversation_participants' = conversation_participants
              /\ typing_status' = typing_status
              /\ ~bc'[t].on
              /\ inbox' = inbox]_vars

\* the step takes a frame of websocket t that is not valid JSON or has no
\* known type
MalformedTaken(t) == pc[t] = "recv" /\ pc'[t] = "reply" /\ frame'[t] = ErrorEvent

\* the step completes the send of an error event on the open websocket t
ErrorReplied(t) ==
    pc[t] = "reply" /\ frame[t] = ErrorEvent /\ open[t] /\ pc'[t] # "reply"

\* C21: a frame that is not valid JSON or whose type is unknown produces an
\* error event to the originating session only; the session stays active
\* and registered, and no persisted state and no registry state changes.
C21_MalformedFrameAnswered ==
    [][\A t \in Sessions :
          /\ MalformedTaken(t) =>
                 /\ regVars' = regVars
                 /\ dbVars' = dbVars
                 /\ inbox' = inbox
                 /\ calls' = calls
          /\ ErrorReplied(t) =>
                 /\ inbox' = [inbox EXCEPT ![t] = Append(@, ErrorEvent)]
                 /\ pc'[t] = "recv"
                 /\ regVars' = regVars
                 /\ dbVars' = dbVars
                 /\ calls' = calls]_vars

\* a single session sent a malformed frame, received the error event and
\* waits, still registered, for its next frame
C21_Witness ==
    \E t \in Sessions :
        /\ \A x \in Sessions \ {t} : pc[x] = "new"
        /\ pc[t] = "recv"
        /\ open[t]
        /\ RegisteredIn(active_connections, t)
        /\ \E i \in 1 .. Len(inbox[t]) : inbox[t][i] = ErrorEvent

\* C22: an inbound event that fails validation (a send_message with a
\* message_type outside the enumeration, a mark_as_read with an id that is
\* not well-formed) is reported as an error event on the same connection,
\* and the connection stays open.
C22_InvalidEventReported ==
    [][\A t \in Sessions :
          (pc[t] = "invalid" /\ pc'[t] # "invalid") =>
              /\ pc'[t] = "reply"
              /\ frame'[t] = ErrorEvent]_vars

\* a frame was taken and its handler returned at once: with send_message
\* frames only, it is a send_message whose content is empty after strip()
BlankSendTaken == clock' = clock + 1 /\ pc' = pc

\* nothing stored, summarised or announced has content that is empty after
\* trimming
NoBlankStored ==
    /\ \A m \in 1 .. Len(messages) : Strip(messages[m].content) # Empty
    /\ \A c \in 1 .. Len(conversations) :
           Strip(conversations[c].last_message_content) # Empty
    /\ \A t \in Sessions : \A i \in 1 .. Len(inbox[t]) :
           inbox[t][i].type = "new_message" => Strip(inbox[t][i].content) # Empty

\* C23: a send_message whose content is empty after trimming whitespace
\* persists no message, leaves the conversation's last-message fields
\* unchanged and broadcasts nothing to any session.
C23_BlankSendIsNoOp ==
    [][/\ BlankSendTaken =>
              /\ messages' = messages
              /\ conversations' = conversations
              /\ inbox' = inbox
              /\ bc' = bc
              /\ frame' = frame
       /\ NoBlankStored']_vars

\* a registered session has sent only whitespace: a frame was taken, no
\* handler is busy, and the store and every inbox are as before
C23_Witness ==
    /\ clock = 1
    /\ Len(messages) = 1
    /\ \E t \in Sessions : pc[t] = "recv" /\ open[t] /\ Len(inbox[t]) = 1
    /\ \A t \in Sessions : pc[t] \notin {"db_send", "bcast"} /\ Len(inbox[t]) <= 1
    /\ \A t \in Sessions : ~cache[t].expired

\* the step takes a typing_start or typing_stop frame of websocket t and
\* suspends in the first send of its broadcast
TypingStarts(t) == ~bc[t].on /\ bc'[t].on /\ bc'[t].ctx = "typing"

\* C24: typing_start and typing_stop set the sender's typing flag for the
\* conversation to true and false, deliver a typing_status event to every
\* open session of the other attendees and to no session of the sender, and
\* change no persisted state.
C24_TypingSetsFlagAndNotifiesOthers ==
    [][\A t \in Sessions :
          /\ TypingStarts(t) =>
                 /\ typing_status'[ses[t].user][bc'[t].key] = bc'[t].ev.flag
                 /\ dbVars' = dbVars
          /\ (BroadcastEnds(t) /\ bc[t].ctx = "typing") =>
                 /\ \A w \in Kept(t) : Count(inbox'[w], bc[t].ev) >= 1
                 /\ \A w \in Sessions :
                        ses[w].user = ses[t].user => Count(inbox'[w], bc[t].ev) = 0
                 /\ dbVars' = dbVars]_vars

\* C25: whatever create_conversation requests a traveler made for a local
\* guide, overlapping ones included, at most one active conversation exists
\* for the pair.
C25_OneActiveConversationPerPair ==
    \A c, d \in 1 .. Len(conversations) :
        (/\ c # d
         /\ conversations[c].committed /\ conversations[d].committed
         /\ conversations[c].is_active /\ conversations[d].is_active
         /\ conversations[c].traveler_id = conversations[d].traveler_id)
            => conversations[c].local_id # conversations[d].local_id

\* C26: every stored conversation has two distinct participants:
\* traveler_id and local_id are never the same user, whoever called
\* create_conversation.
C26_TwoDistinctParticipants ==
    \A c \in 1 .. Len(conversations) :
        conversations[c].committed =>
            conversations[c].traveler_id # conversations[c].local_id

\* C27: an event broadcast for a conversation (new_message, typing_status,
\* messages_read) is delivered only to sessions registered for that
\* conversation, never to a session the same user opened for another one.
C27_EventsStayInTheirConversation ==
    \A w \in Sessions : \A i \in 1 .. Len(inbox[w]) :
        inbox[w][i].type \in {"new_message", "typing_status", "messages_read"} =>
            inbox[w][i].key = ses[w].key

\* C28: every message id carried in a messages_read event refers to a
\* message of that conversation that is in status read and was not sent by
\* the reader the event names; ids of the reader's own messages or of
\* messages of other conversations are never announced as read.
C28_AnnouncedIdsWereRead ==
    \A w \in Sessions : \A i \in 1 .. Len(inbox[w]) :
        inbox[w][i].type = "messages_read" =>
            \A m \in inbox[w][i].ids :
                /\ m \in 1 .. Len(messages)
                /\ messages[m].conversation_id = inbox[w][i].key[1]
                /\ messages[m].status = "read"
                /\ messages[m].sender_id # inbox[w][i].user

\* the key the event handlers of websocket t broadcast to and keep typing
\* state under: str(conversation.id)
HandlerKey(t) == StrId(ses[t].conv)

\* C29: the key a session is registered and unregistered under (the path
\* id as given) is the key its handlers broadcast to and keep typing state
\* under, whatever textual form the client used: the user of a registered
\* session is an attendee under the handlers' key, so the session receives
\* the conversation's broadcasts, and the disconnect of the user's last
\* session leaves no typing flag of the user set for the conversation.
C29_RegisteredUnderBroadcastKey ==
    [][\A t \in Sessions :
          /\ RegisteredIn(active_connections', t) =>
                 /\ HandlerKey(t)' \in DOMAIN conversation_participants'
                 /\ ses'[t].user \in conversation_participants'[HandlerKey(t)']
          /\ (Unregisters(t) /\ LiveSessions(ses[t].user) = {t}) =>
                 \A k \in DOMAIN typing_status'[ses[t].user] :
                     k[1] = ses[t].conv => ~typing_status'[ses[t].user][k]]_vars

\* user u has sent through one session only
SingleSession(u) == Cardinality({ x \in Sessions : ses[x].user = u }) = 1

====
